---- MODULE Spec2Model ----
(***************************************************************************)
(* Model of the Turfoo ingestion service (backends/svc-turfoo-ingest):     *)
(*   - TurfooRSSFeed.fetch      (turfoo/resources.py), a generator         *)
(*   - TurfooLinkScraper.fetch  (turfoo/resources.py), a generator         *)
(*   - the Celery tasks fetch_*_feed (turfoo/tasks.py)                     *)
(* A generator is modelled by its position (pc) and each next() of its     *)
(* consumer is one action: the generator body runs up to its next yield,   *)
(* raise or return.                                                        *)
(***************************************************************************)
EXTENDS Integers, Sequences, FiniteSets, TLC

VARIABLES
    gen,        \* the generator returned by TurfooRSSFeed.fetch(feed_type)
    scr,        \* the generator returned by TurfooLinkScraper.fetch(urls)
    requests,   \* the HTTP GETs httpx.get has issued for scr: <<url, outcome>>
    runs,       \* the task instances known to the Celery app
    last,       \* the most recent execution of a task body: what it parsed, what it returned
    retrievals, \* per feed type, the retrievals of its feed since its dedup marker was set
    marker,     \* per feed type, whether the cache holds feed:<type>:inflight
    elapsed,    \* per RUNNING task instance, the seconds it has been executing
    softSent,   \* per RUNNING task instance, whether the soft limit's signal was sent to it
    limitExc,   \* per task instance, the time limit exception it was reported with
    demands,    \* the next() calls the consumer of scr has made
    boot        \* the process start: the environment, Settings(), RSSFeedType, the Celery app

vars == <<gen, scr, requests, runs, last, retrievals, marker, elapsed, softSent, limitExc,
          demands, boot>>

\* ---------------------------------------------------------------- bounds

MaxEntries == 2
MaxUrls == 3
MaxRuns == 2
PoolSize == 1
ClockStep == 900

\* ------------------------------------------------------- configuration

FeedTypes == {"PROGRAM", "NEWS", "RESULTS"}

\* settings.turfoo_<type>_feed_url: one configured URL per feed.
SettingsUrl(t) ==
    CASE t = "PROGRAM" -> "turfoo_program_feed_url"
      [] t = "NEWS"    -> "turfoo_news_feed_url"
      [] t = "RESULTS" -> "turfoo_results_feed_url"

\* RSSFeedType.<t>.value
RSSFeedTypeValue(t) == SettingsUrl(t)

\* ------------------------------------------------------------- feedparser

NoTitle == "<no title>"
FeedTitles == {"Turfoo", NoTitle}

\* The fields of the RSSEntry dataclass.
RSSEntryFields ==
    {"title", "title_detail", "links", "link", "published", "published_parsed",
     "id", "guidislink", "summary", "summary_detail"}

\* The key sets a parsed entry may carry: feedparser gives an entry the keys of
\* the elements its <item> holds.
EntryKeySets == {RSSEntryFields, RSSEntryFields \cup {"author"}}

RawEntries == [title : {"A", "B"}, keys : EntryKeySets]

\* The one entry shape the tasks' feeds are drawn from (they only count entries).
PlainEntries == [title : {"A"}, keys : {RSSEntryFields}]

SeqsUpTo(S, n) == UNION {[1..k -> S] : k \in 0..n}

NoFeed ==
    [href |-> "", retrieval |-> "none", raised |-> FALSE, bozo |-> FALSE,
     bozo_exception |-> "None", entries |-> <<>>, title |-> NoTitle]

\* What feedparser.parse(url) can produce.  retrieval is what happened on the
\* wire: "ok" (2xx), "non2xx" (an HTTP error status such as 500: feedparser
\* records the status and parses the body it got), "unreachable" (DNS, TLS,
\* timeout: urllib's URLError, which parse either raises or reports as
\* bozo_exception, depending on the feedparser release).
ParseOutcomes(url, E) ==
    {[href |-> url, retrieval |-> "unreachable", raised |-> TRUE, bozo |-> FALSE,
      bozo_exception |-> "None", entries |-> <<>>, title |-> NoTitle],
     [href |-> url, retrieval |-> "unreachable", raised |-> FALSE, bozo |-> TRUE,
      bozo_exception |-> "URLError", entries |-> <<>>, title |-> NoTitle]}
    \cup
    {[href |-> url, retrieval |-> r, raised |-> FALSE, bozo |-> b,
      bozo_exception |-> (IF b THEN "SAXParseException" ELSE "None"),
      entries |-> es, title |-> ti] :
        r \in {"ok", "non2xx"}, b \in BOOLEAN,
        es \in SeqsUpTo(E, MaxEntries), ti \in FeedTitles}

\* ------------------------------------------------------------- exceptions

NoError == [type |-> "None", msg |-> "", cause |-> "None"]

\* resources.py line 17: raise exceptions.TurfooFeedError(...) from e
TransportError == [type |-> "TurfooFeedError", msg |-> "Ellipsis", cause |-> "URLError"]

\* resources.py lines 20-22
MalformedError(feed) ==
    [type |-> "TurfooFeedError", msg |-> "Malformed feed", cause |-> feed.bozo_exception]

\* resources.py line 25
EmptyError ==
    [type |-> "TurfooFeedError", msg |-> "RSS feed contains no entries", cause |-> "None"]

\* RSSEntry(**entry) with a key that is no field, or a field that is no key.
EntryTypeError == [type |-> "TypeError", msg |-> "RSSEntry.__init__", cause |-> "None"]

\* ------------------------------------------------- TurfooRSSFeed.fetch

\* The two checks between the parse and the first yield: the error raised, or
\* NoError.
Validate_NoEmptyCheck(feed) ==
    IF feed.bozo THEN MalformedError(feed) ELSE NoError

Validate_NoBozoCheck(feed) ==
    IF feed.entries = <<>> THEN EmptyError ELSE NoError

Validate(feed) ==
    IF feed.bozo THEN MalformedError(feed)
    ELSE IF feed.entries = <<>> THEN EmptyError
    ELSE NoError

\* models.RSSEntry(**entry): the dataclass constructor takes exactly its fields.
RSSEntryAccepts(entry) == entry.keys = RSSEntryFields

RSSEntry(entry) == [title |-> entry.title]

\* One step of the generator expression of line 27 at position i: the entry is
\* built and yielded, or its construction raises.
YieldEntry(g, i) ==
    IF RSSEntryAccepts(g.feed.entries[i])
    THEN [g EXCEPT !.pc = "suspended", !.idx = i,
                   !.out = Append(g.out, RSSEntry(g.feed.entries[i]))]
    ELSE [g EXCEPT !.pc = "raised", !.idx = i, !.err = EntryTypeError]

\* yield from (...): the next entry if there is one, else the generator returns.
Advance(g) ==
    IF g.idx < Len(g.feed.entries)
    THEN YieldEntry(g, g.idx + 1)
    ELSE [g EXCEPT !.pc = "done"]

NoGen ==
    [pc |-> "none", feed_type |-> "PROGRAM", feed |-> NoFeed, idx |-> 0,
     out |-> <<>>, err |-> NoError]

\* rss = TurfooRSSFeed().fetch(feed_type): a generator is created; nothing runs.
FeedFetch(t) ==
    /\ gen.pc = "none"
    /\ gen' = [gen EXCEPT !.pc = "created", !.feed_type = t]
    /\ UNCHANGED <<scr, requests, runs, last, retrievals, marker, elapsed, softSent, limitExc, demands, boot>>

\* The first next(): lines 14-27 up to the first yield.
FeedFirstNext ==
    /\ gen.pc = "created"
    /\ \E feed \in ParseOutcomes(RSSFeedTypeValue(gen.feed_type), RawEntries) :
         LET g == [gen EXCEPT !.feed = feed] IN
         gen' = IF feed.raised
                THEN [g EXCEPT !.pc = "raised", !.err = TransportError]
                ELSE IF Validate(feed) # NoError
                THEN [g EXCEPT !.pc = "raised", !.err = Validate(feed)]
                ELSE Advance(g)
    /\ UNCHANGED <<scr, requests, runs, last, retrievals, marker, elapsed, softSent, limitExc, demands, boot>>

\* A later next(): the generator expression advances, or is exhausted.
FeedLaterNext ==
    /\ gen.pc = "suspended"
    /\ gen' = Advance(gen)
    /\ UNCHANGED <<scr, requests, runs, last, retrievals, marker, elapsed, softSent, limitExc, demands, boot>>

FeedNext ==
    \/ \E t \in FeedTypes : FeedFetch(t)
    \/ FeedFirstNext
    \/ FeedLaterNext

\* ---------------------------------------------- TurfooLinkScraper.fetch

ScrapeUrls == {"A", "B", "C"}

\* What one httpx.get(url) followed by raise_for_status() can do: a success
\* status, a non-success status (HTTPStatusError), a transport failure
\* (TransportError); both errors are httpx.HTTPError.
GetOutcomes == {"ok", "status", "transport"}

HTTPErrorOf(outcome) ==
    IF outcome = "status" THEN "HTTPStatusError" ELSE "TransportError"

\* response.text of a successful GET of url
PageOf(url) == <<"page", url>>

\* resources.py line 40: the message names the URL, the cause is the httpx error.
LinkScrapeError(url, cause) ==
    [type |-> "TurfooLinkScrapeError", msg |-> url, cause |-> cause]

NoScr == [pc |-> "none", urls |-> <<>>, idx |-> 0, out |-> <<>>, err |-> NoError]

\* for url in urls: the URL of the iteration the generator is about to run.
NextUrl_Reversed(s) == s.urls[Len(s.urls) - s.idx]

NextUrl(s) == s.urls[s.idx + 1]

\* line 38: yield response.text
OnResponse(s, url) ==
    [s EXCEPT !.pc = "suspended", !.idx = s.idx + 1, !.out = Append(s.out, PageOf(url))]

\* lines 39-40: except httpx.HTTPError as e: raise TurfooLinkScrapeError from e
OnHTTPError_Skip(s, url, cause) ==
    [s EXCEPT !.pc = "suspended", !.idx = s.idx + 1]

OnHTTPError(s, url, cause) ==
    [s EXCEPT !.pc = "raised", !.idx = s.idx + 1, !.err = LinkScrapeError(url, cause)]

\* pages = TurfooLinkScraper().fetch(urls): a generator is created; nothing runs.
ScraperFetch_Eager(urls) ==
    /\ scr.pc = "none"
    /\ scr' = [scr EXCEPT !.pc = "created", !.urls = urls]
    /\ requests' = [i \in 1..Len(urls) |-> [url |-> urls[i], outcome |-> "ok"]]
    /\ UNCHANGED <<gen, runs, last, retrievals, marker, elapsed, softSent, limitExc,
                   demands, boot>>

ScraperFetch(urls) ==
    /\ scr.pc = "none"
    /\ scr' = [scr EXCEPT !.pc = "created", !.urls = urls]
    /\ UNCHANGED <<gen, requests, runs, last, retrievals, marker, elapsed, softSent, limitExc, demands, boot>>

\* next() with a URL left: one iteration of the loop, one GET.
ScraperNextGet ==
    /\ scr.pc \in {"created", "suspended"}
    /\ scr.idx < Len(scr.urls)
    /\ \E outcome \in GetOutcomes :
         LET url == NextUrl(scr) IN
         /\ requests' = Append(requests, [url |-> url, outcome |-> outcome])
         /\ scr' = IF outcome = "ok"
                   THEN OnResponse(scr, url)
                   ELSE OnHTTPError(scr, url, HTTPErrorOf(outcome))
    /\ demands' = demands + 1
    /\ UNCHANGED <<gen, runs, last, retrievals, marker, elapsed, softSent, limitExc, boot>>

\* next() with no URL left: the loop ends and the generator returns.
ScraperNextEnd ==
    /\ scr.pc \in {"created", "suspended"}
    /\ scr.idx >= Len(scr.urls)
    /\ scr' = [scr EXCEPT !.pc = "done"]
    /\ demands' = demands + 1
    /\ UNCHANGED <<gen, requests, runs, last, retrievals, marker, elapsed, softSent, limitExc, boot>>

\* next() on a generator that has returned, raised or been closed: StopIteration,
\* no GET.  (The consumer's calls are counted up to two past the list's length.)
ScraperNextFinished ==
    /\ scr.pc \in {"done", "raised", "closed"}
    /\ demands < Len(scr.urls) + 2
    /\ demands' = demands + 1
    /\ UNCHANGED <<gen, scr, requests, runs, last, retrievals, marker, elapsed, softSent,
                   limitExc, boot>>

\* The consumer stops early (break, close()): GeneratorExit at the yield.
ScraperClose ==
    /\ scr.pc \in {"created", "suspended"}
    /\ scr' = [scr EXCEPT !.pc = "closed"]
    /\ UNCHANGED <<gen, requests, runs, last, retrievals, marker, elapsed, softSent,
                   limitExc, demands, boot>>

ScraperNext ==
    \/ \E urls \in SeqsUpTo(ScrapeUrls, MaxUrls) : ScraperFetch(urls)
    \/ ScraperNextGet
    \/ ScraperNextEnd
    \/ ScraperNextFinished
    \/ ScraperClose

\* ------------------------------------------------------ tasks.py, Celery

TaskNames == {"fetch_program_feed", "fetch_news_feed", "fetch_results_feed"}

\* The feed each task is written for (its name, docstring and log lines).
TaskFeedType(name) ==
    CASE name = "fetch_program_feed" -> "PROGRAM"
      [] name = "fetch_news_feed"    -> "NEWS"
      [] name = "fetch_results_feed" -> "RESULTS"

\* The setting each task body passes to feedparser.parse (lines 15, 26, 37).
TaskUrl_AllProgram(name) == SettingsUrl("PROGRAM")

TaskUrl(name) ==
    CASE name = "fetch_program_feed" -> SettingsUrl("PROGRAM")
      [] name = "fetch_news_feed"    -> SettingsUrl("NEWS")
      [] name = "fetch_results_feed" -> SettingsUrl("RESULTS")

\* The value each task returns (lines 17, 28, 39):
\* {"entries": len(feed.entries), "title": feed.feed.get("title", "Unknown")}
Summary(feed) ==
    [entries |-> Len(feed.entries),
     title |-> IF feed.title = NoTitle THEN "Unknown" ELSE feed.title]

NoSummary == [entries |-> -1, title |-> ""]

NoRun == [name |-> "none", state |-> "NONE"]

NoLast == [slot |-> 0, feed |-> NoFeed, result |-> NoSummary, err |-> "None"]

\* A task is sent (on demand or by the schedule): a new instance, PENDING.
TaskTrigger(i, name) ==
    /\ runs[i].state = "NONE"
    /\ \A j \in 1..(i - 1) : runs[j].state # "NONE"
    /\ runs' = [runs EXCEPT ![i] = [name |-> name, state |-> "PENDING"]]
    /\ UNCHANGED <<gen, scr, requests, last, retrievals, marker, elapsed, softSent, limitExc, demands, boot>>

\* The worker pool: a fixed number of processes, each executing one task at a
\* time (worker_prefetch_multiplier=1: a process reserves no task beyond its own).
Running == {i \in 1..MaxRuns : runs[i].state = "RUNNING"}

SlotFree_Always == TRUE

SlotFree == Cardinality(Running) < PoolSize

\* A worker takes the instance (task_track_started: its state is reported).
TaskStart(i) ==
    /\ runs[i].state = "PENDING"
    /\ SlotFree
    /\ runs' = [runs EXCEPT ![i].state = "RUNNING"]
    /\ UNCHANGED <<gen, scr, requests, last, retrievals, marker, elapsed, softSent, limitExc, demands, boot>>

\* The task body: feedparser.parse of the task's URL, then the summary is
\* returned; an exception of the body makes the instance FAILED.
TaskBody(i) ==
    /\ runs[i].state = "RUNNING"
    /\ ~softSent[i]
    /\ \E feed \in ParseOutcomes(TaskUrl(runs[i].name), PlainEntries) :
         /\ runs' = [runs EXCEPT ![i].state = IF feed.raised THEN "FAILED" ELSE "SUCCEEDED"]
         /\ last' = [slot |-> i, feed |-> feed,
                     result |-> IF feed.raised THEN NoSummary ELSE Summary(feed),
                     err |-> IF feed.raised THEN "URLError" ELSE "None"]
    /\ retrievals' =
         [retrievals EXCEPT ![TaskFeedType(runs[i].name)] =
             IF marker[TaskFeedType(runs[i].name)] THEN @ + 1 ELSE @]
    /\ elapsed' = [elapsed EXCEPT ![i] = 0]
    /\ UNCHANGED <<gen, scr, requests, marker, softSent, limitExc, demands, boot>>

TaskNext ==
    \/ \E i \in 1..MaxRuns, name \in TaskNames : TaskTrigger(i, name)
    \/ \E i \in 1..MaxRuns : TaskStart(i)
    \/ \E i \in 1..MaxRuns : TaskBody(i)

\* ------------------------------------------------- celery_app.py: time limits

\* task_soft_time_limit and task_time_limit, in seconds.
TaskSoftTimeLimit_Swapped == 30 * 60

TaskSoftTimeLimit == 25 * 60

TaskTimeLimit == 30 * 60

Min(S) == CHOOSE x \in S : \A y \in S : x <= y

\* The limits of instance i the pool's timer has still to act on.
Deadlines(i) ==
    {TaskTimeLimit} \cup (IF softSent[i] THEN {} ELSE {TaskSoftTimeLimit})

\* Time passes for a running instance, up to the next limit the timer acts on.
Tick(i) ==
    /\ runs[i].state = "RUNNING"
    /\ \A d \in Deadlines(i) : elapsed[i] < d
    /\ elapsed' = [elapsed EXCEPT ![i] = Min({@ + ClockStep} \cup Deadlines(i))]
    /\ UNCHANGED <<gen, scr, requests, runs, last, retrievals, marker, softSent, limitExc, demands, boot>>

\* The soft limit is reached: the timer signals the worker process, which is to
\* raise SoftTimeLimitExceeded in the task body.
SoftTimeLimit(i) ==
    /\ runs[i].state = "RUNNING"
    /\ ~softSent[i]
    /\ elapsed[i] >= TaskSoftTimeLimit
    /\ elapsed[i] < TaskTimeLimit
    /\ softSent' = [softSent EXCEPT ![i] = TRUE]
    /\ UNCHANGED <<gen, scr, requests, runs, last, retrievals, marker, elapsed, limitExc, demands, boot>>

\* The state an instance ends in when SoftTimeLimitExceeded is raised in its
\* body: no task body of tasks.py catches it, so it leaves the body.
OnSoftTimeLimitExceeded == "TIMED_OUT"

\* SoftTimeLimitExceeded is raised in the body (as soon as the body is back in
\* the interpreter: a blocking call may delay it).
SoftTimeLimitExceeded(i) ==
    /\ runs[i].state = "RUNNING"
    /\ softSent[i]
    /\ runs' = [runs EXCEPT ![i].state = OnSoftTimeLimitExceeded]
    /\ limitExc' = [limitExc EXCEPT ![i] = "SoftTimeLimitExceeded"]
    /\ elapsed' = [elapsed EXCEPT ![i] = 0]
    /\ softSent' = [softSent EXCEPT ![i] = FALSE]
    /\ UNCHANGED <<gen, scr, requests, last, retrievals, marker, demands, boot>>

\* The hard limit is reached: the worker process is killed, the instance is
\* reported with TimeLimitExceeded and nothing of its body is kept.
HardTimeLimit(i) ==
    /\ runs[i].state = "RUNNING"
    /\ elapsed[i] >= TaskTimeLimit
    /\ runs' = [runs EXCEPT ![i].state = "TIMED_OUT"]
    /\ limitExc' = [limitExc EXCEPT ![i] = "TimeLimitExceeded"]
    /\ elapsed' = [elapsed EXCEPT ![i] = 0]
    /\ softSent' = [softSent EXCEPT ![i] = FALSE]
    /\ UNCHANGED <<gen, scr, requests, last, retrievals, marker, demands, boot>>

LimitNext ==
    \/ \E i \in 1..MaxRuns : Tick(i)
    \/ \E i \in 1..MaxRuns : SoftTimeLimit(i)
    \/ \E i \in 1..MaxRuns : SoftTimeLimitExceeded(i)
    \/ \E i \in 1..MaxRuns : HardTimeLimit(i)

\* --------------------------------------------------- the cache's dedup marker

\* The key feed:<type>:inflight appears in the cache (set with a TTL by whoever
\* writes it; no code of tasks.py, resources.py or cache.py writes or reads it).
MarkerSet(t) ==
    /\ ~marker[t]
    /\ marker' = [marker EXCEPT ![t] = TRUE]
    /\ retrievals' = [retrievals EXCEPT ![t] = 0]
    /\ UNCHANGED <<gen, scr, requests, runs, last, elapsed, softSent, limitExc, demands, boot>>

\* The key's TTL runs out.
MarkerExpire(t) ==
    /\ marker[t]
    /\ marker' = [marker EXCEPT ![t] = FALSE]
    /\ retrievals' = [retrievals EXCEPT ![t] = 0]
    /\ UNCHANGED <<gen, scr, requests, runs, last, elapsed, softSent, limitExc, demands, boot>>

MarkerNext ==
    \/ \E t \in FeedTypes : MarkerSet(t)
    \/ \E t \in FeedTypes : MarkerExpire(t)

\* ------------------------------------------------------------ process start

\* An optional value: None, or Some(v) for a supplied v.
None == <<>>
Some(v) == <<v>>

\* A string is the sequence of its pieces; Text(s) is the one-piece string s.
Text(s) == <<s>>
EmptyStr == <<>>

\* The feed URLs an environment may hold: two well-formed http(s) URLs, one
\* with a scheme HttpUrl rejects, one without a host.
UrlCandidates ==
    {[scheme |-> "https", host |-> "www.turfoo.fr"],
     [scheme |-> "http",  host |-> "www.turfoo.fr"],
     [scheme |-> "ftp",   host |-> "www.turfoo.fr"],
     [scheme |-> "https", host |-> ""]}

\* pydantic's HttpUrl accepts a URL iff its scheme is http or https and it has a host.
HttpUrlValid(u) == u.scheme \in {"http", "https"} /\ u.host # ""

\* What the process environment supplies to Settings(): every field may be
\* absent (None) except the password and the S3 and logging fields, which are
\* taken as supplied and valid.
Environments ==
    [feed     : [FeedTypes -> {None} \cup {Some(u) : u \in UrlCandidates}],
     host     : {None, Some("redis.local")},
     port     : {None, Some(6380)},
     username : {None, Some("turfoo")},
     password : {Some("secret")},
     broker   : {None, Some(EmptyStr), Some(Text("amqp://mq.local//"))},
     backend  : {None, Some(EmptyStr), Some(Text("redis://results.local/2"))}]

DefaultRedisPort == 6379
DefaultRedisUsername == "default"

\* The field takes the supplied value, or its default when none is supplied.
FieldOr(opt, default) == IF opt = None THEN default ELSE opt[1]

\* Settings() validates: the required fields are supplied and each feed URL is an HttpUrl.
SettingsValid(env) ==
    /\ \A t \in FeedTypes : env.feed[t] # None /\ HttpUrlValid(env.feed[t][1])
    /\ env.host # None
    /\ env.password # None

\* Settings.redis_url
RedisUrl(s) ==
    <<"redis://", s.cache_redis_username, ":", s.cache_redis_password, "@",
      s.cache_redis_host, ":", ToString(s.cache_redis_port)>>

\* "if self.<field> is None: self.<field> = <default>", with an emptiness test
\* in place of the None test.
DefaultIfNone_Falsy(v, default) == IF v = None \/ v = Some(EmptyStr) THEN Some(default) ELSE v

\* "if self.<field> is None: self.<field> = <default>"
DefaultIfNone(v, default) == IF v = None THEN Some(default) ELSE v

\* Settings.model_post_init
ModelPostInit(s) ==
    [s EXCEPT !.celery_broker_url     = DefaultIfNone(@, RedisUrl(s) \o <<"/1">>),
              !.celery_result_backend = DefaultIfNone(@, RedisUrl(s) \o <<"/1">>)]

\* The Settings instance built from a valid environment, after model_post_init.
SettingsOf(env) ==
    ModelPostInit(
        [turfoo_feed_url       |-> [t \in FeedTypes |-> env.feed[t][1]],
         cache_redis_host      |-> env.host[1],
         cache_redis_port      |-> FieldOr(env.port, DefaultRedisPort),
         cache_redis_username  |-> FieldOr(env.username, DefaultRedisUsername),
         cache_redis_password  |-> env.password[1],
         celery_broker_url     |-> env.broker,
         celery_result_backend |-> env.backend])

\* The names the module turfoo.settings defines.
SettingsModuleNames == {"logging", "HttpUrl", "BaseSettings", "Settings", "settings"}

NoBoot == [pc |-> "none", env |-> None, settings |-> None, models |-> "unimported", app |-> None]

\* The process is started in some environment.
Configure(env) ==
    /\ boot.pc = "none"
    /\ boot' = [boot EXCEPT !.pc = "configured", !.env = env]
    /\ UNCHANGED <<gen, scr, requests, runs, last, retrievals, marker, elapsed, softSent,
                   limitExc, demands>>

\* The first import of turfoo.settings runs "settings = Settings()".
LoadSettings ==
    /\ boot.pc = "configured"
    /\ boot' = IF SettingsValid(boot.env)
                 THEN [boot EXCEPT !.pc = "loaded", !.settings = SettingsOf(boot.env)]
                 ELSE [boot EXCEPT !.pc = "ValidationError"]
    /\ UNCHANGED <<gen, scr, requests, runs, last, retrievals, marker, elapsed, softSent,
                   limitExc, demands>>

\* import turfoo.models: "from turfoo import settings" binds the module
\* turfoo.settings (a failed import of it raises again), then the body of
\* class RSSFeedType reads settings.conf.
ImportModels ==
    /\ boot.pc \in {"loaded", "ValidationError"}
    /\ boot.models = "unimported"
    /\ boot' = [boot EXCEPT !.models =
                   IF boot.pc = "ValidationError" THEN "ValidationError"
                   ELSE IF "conf" \in SettingsModuleNames THEN "imported"
                   ELSE "AttributeError"]
    /\ UNCHANGED <<gen, scr, requests, runs, last, retrievals, marker, elapsed, softSent,
                   limitExc, demands>>

\* import turfoo.celery_app: app = Celery("turfoo", broker=..., backend=...)
CeleryApp ==
    /\ boot.pc = "loaded"
    /\ boot.app = None
    /\ boot' = [boot EXCEPT !.app = Some([broker  |-> boot.settings.celery_broker_url[1],
                                          backend |-> boot.settings.celery_result_backend[1]])]
    /\ UNCHANGED <<gen, scr, requests, runs, last, retrievals, marker, elapsed, softSent,
                   limitExc, demands>>

ConfigNext ==
    \/ \E env \in Environments : Configure(env)
    \/ LoadSettings
    \/ ImportModels
    \/ CeleryApp

\* ------------------------------------------------------------ whole system

Init ==
    /\ gen = NoGen
    /\ scr = NoScr
    /\ requests = <<>>
    /\ runs = [i \in 1..MaxRuns |-> NoRun]
    /\ last = NoLast
    /\ retrievals = [t \in FeedTypes |-> 0]
    /\ marker = [t \in FeedTypes |-> FALSE]
    /\ elapsed = [i \in 1..MaxRuns |-> 0]
    /\ softSent = [i \in 1..MaxRuns |-> FALSE]
    /\ limitExc = [i \in 1..MaxRuns |-> "None"]
    /\ demands = 0
    /\ boot = NoBoot

Next == FeedNext \/ ScraperNext \/ TaskNext \/ LimitNext \/ MarkerNext \/ ConfigNext

Spec == Init /\ [][Next]_vars

FeedSpec == Init /\ [][FeedNext]_vars

ScraperSpec == Init /\ [][ScraperNext]_vars

TaskSpec == Init /\ [][TaskNext]_vars

WorkerNext == TaskNext \/ LimitNext

WorkerSpec == Init /\ [][WorkerNext]_vars

DedupNext == TaskNext \/ MarkerNext

DedupSpec == Init /\ [][DedupNext]_vars

ConfigSpec == Init /\ [][ConfigNext]_vars

\* ------------------------------------------------- claims: the feed fetcher

\* gen has run its parse: gen.feed is what feedparser.parse returned.
FeedParsed == gen.feed.retrieval # "none" /\ ~gen.feed.raised

\* C1: whenever the parsed feed is not flagged malformed and has zero entries,
\* the consumption of fetch(feed_type) has raised the empty-feed error
\* (TurfooFeedError "RSS feed contains no entries"), has yielded nothing and
\* has not completed as an empty sequence.
C1_EmptyFeedRaises ==
    (FeedParsed /\ ~gen.feed.bozo /\ gen.feed.entries = <<>>)
        => /\ gen.pc = "raised"
           /\ gen.err = EmptyError
           /\ gen.out = <<>>

C1_Witness ==
    /\ FeedParsed /\ ~gen.feed.bozo /\ gen.feed.entries = <<>>
    /\ gen.pc = "raised"

\* C2: whenever the parser flagged the document malformed, the consumption has
\* raised the malformed-feed error (TurfooFeedError "Malformed feed", caused by
\* the parser's diagnostic) and no entry has been yielded, however many entries
\* the parser recovered.
C2_MalformedFeedRaises ==
    (FeedParsed /\ gen.feed.bozo)
        => /\ gen.pc = "raised"
           /\ gen.err = MalformedError(gen.feed)
           /\ gen.out = <<>>

C2_Witness ==
    /\ FeedParsed /\ gen.feed.bozo /\ Len(gen.feed.entries) >= 1
    /\ gen.pc = "raised"

\* C5: once a well-formed feed of N >= 1 entries is fully consumed, the output
\* is exactly the N records built from its entries, in the feed's order.
C5_AllEntriesInOrder ==
    (FeedParsed /\ ~gen.feed.bozo /\ Len(gen.feed.entries) >= 1
        /\ gen.pc \in {"done", "raised"})
        => /\ gen.pc = "done"
           /\ gen.out = [i \in 1..Len(gen.feed.entries) |-> RSSEntry(gen.feed.entries[i])]

\* C7: whenever the retrieval of the feed document failed (unreachable host, or
\* a non-2xx status), the consumption has raised TurfooFeedError caused by the
\* transport failure and no entry has been yielded.
C7_RetrievalFailureRaises ==
    (gen.feed.retrieval \in {"unreachable", "non2xx"})
        => /\ gen.pc = "raised"
           /\ gen.err.type = "TurfooFeedError"
           /\ gen.err.cause = "URLError"
           /\ gen.out = <<>>

\* ------------------------------------------------- claims: the link scraper

FailedRequests == {i \in DOMAIN requests : requests[i].outcome # "ok"}

\* C3: whenever some GET has failed, it is the last GET issued, say the k-th:
\* the GETs issued are those of the first k URLs in input order, the output is
\* exactly the pages of the first k-1 URLs in input order, and the generator
\* has raised TurfooLinkScrapeError naming the k-th URL.  No later state issues
\* another GET.
C3_FailFast ==
    FailedRequests # {}
        => LET k == Len(requests) IN
           /\ FailedRequests = {k}
           /\ k <= Len(scr.urls)
           /\ \A i \in 1..k : requests[i].url = scr.urls[i]
           /\ scr.out = [i \in 1..(k - 1) |-> PageOf(scr.urls[i])]
           /\ scr.pc = "raised"
           /\ scr.err = LinkScrapeError(scr.urls[k], HTTPErrorOf(requests[k].outcome))

\* [A, B, C] where B fails
C3_Witness ==
    /\ scr.urls = <<"A", "B", "C">>
    /\ Len(requests) = 2 /\ requests[2].outcome # "ok"
    /\ scr.pc = "raised"

\* C4: once the generator has returned, every URL having succeeded, there is
\* exactly one page per input URL and the i-th page is that of the i-th URL.
C4_OnePagePerUrlInOrder ==
    scr.pc = "done"
        => /\ Len(scr.out) = Len(scr.urls)
           /\ Len(requests) = Len(scr.urls)
           /\ \A i \in 1..Len(scr.urls) :
                 /\ requests[i].url = scr.urls[i]
                 /\ scr.out[i] = PageOf(scr.urls[i])

\* a list with a duplicate, fully consumed
C4_Witness ==
    /\ scr.pc = "done"
    /\ scr.urls = <<"A", "B", "A">>


\* --------------------------------------------------------- claims: the tasks

\* A task body has run to its return: last.feed is what it parsed.
BodyReturned == last.slot # 0 /\ ~last.feed.raised

FetchFailed ==
    /\ last.slot # 0
    /\ \/ last.feed.retrieval # "ok"
       \/ last.feed.bozo
       \/ last.feed.entries = <<>>

\* C8: whenever the fetch of a task failed, its instance is FAILED with the
\* error recorded, and is not SUCCEEDED with a summary.
C8_FailedFetchFailsTask ==
    FetchFailed
        => /\ runs[last.slot].state = "FAILED"
           /\ last.err # "None"
           /\ last.result = NoSummary

\* C9: while the dedup marker of a feed type is set, at most one retrieval of
\* that feed happens: a second run for the type is skipped.
C9_OneRetrievalPerMarkerLifetime ==
    \A t \in FeedTypes : marker[t] => retrievals[t] <= 1

\* ------------------------------------------- claims: the worker and its limits

Terminal == {"SUCCEEDED", "FAILED", "TIMED_OUT"}

\* C11: every step changes the state of a task instance only from none to
\* PENDING (it is sent), from PENDING to RUNNING and then only when fewer than
\* PoolSize instances are RUNNING, or from RUNNING to one of SUCCEEDED, FAILED,
\* TIMED_OUT; so no terminal state is reached but from RUNNING, and a terminal
\* state is never left.
C11_Lifecycle ==
    [][\A i \in 1..MaxRuns :
         runs'[i].state # runs[i].state
            => \/ runs[i].state = "NONE" /\ runs'[i].state = "PENDING"
               \/ /\ runs[i].state = "PENDING" /\ runs'[i].state = "RUNNING"
                  /\ Cardinality(Running) < PoolSize
               \/ runs[i].state = "RUNNING" /\ runs'[i].state \in Terminal]_vars

\* an instance has ended while another one, started after it, is RUNNING
C11_Witness ==
    \E i, j \in 1..MaxRuns : runs[i].state \in Terminal /\ runs[j].state = "RUNNING"

C14_GetsEqualRequested == Len(requests) = demands

\* C14 (amended): the GETs issued are those of the first URLs of the list, in
\* order, never more than the consumer's next() calls nor than the URLs; while
\* the generator is live (not returned, raised or closed) they are exactly as
\* many as the next() calls; a next() that finds the list exhausted, or follows
\* an error or a close, issues none; and a consumer that stopped after k pages
\* has caused exactly k GETs.
C14_DemandDriven ==
    LET n == Len(requests) IN
    /\ n <= demands
    /\ n <= Len(scr.urls)
    /\ \A i \in 1..n : requests[i].url = scr.urls[i]
    /\ scr.pc \in {"created", "suspended"} => n = demands
    /\ scr.pc = "closed" => n = Len(scr.out)
    /\ scr.pc = "done" => n = Len(scr.urls) /\ demands > n
    /\ scr.pc = "raised" => n = Len(scr.out) + 1

\* the consumer of three URLs stopped after two pages
C14_Witness ==
    /\ scr.pc = "closed"
    /\ Len(scr.urls) = 3
    /\ Len(scr.out) = 2
    /\ Len(requests) = 2

\* ----------------------------------------------- claims: the configuration

\* C13: for every configuration that loads, once turfoo.models has been
\* imported the enumeration RSSFeedType exists and each of PROGRAM, NEWS and
\* RESULTS is bound to the configured URL of its feed, which is a well-formed
\* http(s) URL; a configuration with an invalid feed URL has failed at
\* Settings() and never yields the enumeration.
C13_VariantsBoundToValidUrls ==
    /\ (boot.pc = "loaded" /\ boot.models # "unimported")
          => /\ boot.models = "imported"
             /\ \A t \in FeedTypes : HttpUrlValid(boot.settings.turfoo_feed_url[t])
    /\ (boot.pc = "ValidationError") => boot.models # "imported"

\* C15: after Settings is initialised, celery_broker_url and
\* celery_result_backend are both set; each one the environment did not supply
\* is "redis://<username>:<password>@<host>:<port>/1" (username "default" and
\* port 6379 unless supplied), each one it supplied is the supplied value, the
\* empty string included, whatever the other one is; the Celery app is created
\* with these two values.
C15_CeleryUrlsDefaulted ==
    boot.pc = "loaded" =>
        LET e == boot.env
            s == boot.settings
            user == IF e.username = None THEN "default" ELSE e.username[1]
            port == IF e.port = None THEN "6379" ELSE ToString(e.port[1])
            d == <<"redis://", user, ":", e.password[1], "@", e.host[1], ":", port, "/1">>
        IN  /\ s.celery_broker_url # None
            /\ s.celery_result_backend # None
            /\ s.celery_broker_url = (IF e.broker = None THEN Some(d) ELSE e.broker)
            /\ s.celery_result_backend = (IF e.backend = None THEN Some(d) ELSE e.backend)
            /\ boot.app # None
                  => /\ boot.app[1].broker = s.celery_broker_url[1]
                     /\ boot.app[1].backend = s.celery_result_backend[1]

\* One URL supplied (as the empty string), the other one defaulted from a
\* Redis URL built with the default username and port, and the app created.
C15_Witness ==
    /\ boot.pc = "loaded"
    /\ boot.env.broker = Some(EmptyStr)
    /\ boot.env.backend = None
    /\ boot.env.username = None
    /\ boot.env.port = None
    /\ boot.app # None
    /\ boot.app[1].backend =
          <<"redis://", "default", ":", "secret", "@", "redis.local", ":", "6379", "/1">>

====
